---- MODULE Spec2Model ----
(***************************************************************************)
(* Model of the canonical-record-to-FHIR projection of clinified:          *)
(* backend/app/models/patient.py (Patient) and                             *)
(* backend/app/models/encounter.py (Encounter).                            *)
(*                                                                         *)
(* A caller holds one Patient and one Encounter object, assigns their      *)
(* attributes, and calls their methods and properties.  `ret` is the        *)
(* outcome of the call the caller made last and has not yet dropped: a     *)
(* returned value or a raised exception.                                   *)
(***************************************************************************)
EXTENDS Integers, Sequences, FiniteSets, TLC

VARIABLES
    patient,    \* the Patient object: attribute name -> Python value
    encounter,  \* the Encounter object: attribute name -> Python value
    writes,     \* attribute assignments made since construction
    ret,        \* outcome of the call the caller is looking at
    clock,      \* what datetime.now().date() returned to the last call,
                \* None when that call did not read the clock
    tasks,      \* the projector invocations running side by side: per task
                \* the method, the members evaluated and the document so far
    request,    \* the HTTP request being served and what its collaborators
                \* answer
    session     \* the AsyncSession get_db made for the request

vars == <<patient, encounter, writes, ret, clock, tasks, request, session>>

(***************************************************************************)
(* Bounds of the model.                                                    *)
(***************************************************************************)
\* attribute assignments after construction
MaxWrites == 2
\* entries of a stored JSON list (allergies, reason_code, diagnosis)
MaxListLen == 2

\* projector invocations running side by side
MaxTasks == 2

(***************************************************************************)
(* Python values.  Every value that may be None is a record tagged with    *)
(* its Python type; bool and int attributes are TLA+ booleans and          *)
(* integers; a JSON object (dict) is a TLA+ record and a JSON array a      *)
(* sequence.                                                               *)
(***************************************************************************)
None == [ty |-> "NoneType"]

Str(s) == [ty |-> "str", v |-> s]

List(q) == [ty |-> "list", v |-> q]

\* a dict that is stored as a column value: <<key, value>> pairs in
\* insertion order
Dict(kv) == [ty |-> "dict", v |-> kv]

UUID(s) == [ty |-> "UUID", v |-> s]

PyInt(n) == [ty |-> "int", v |-> n]

Date(y, m, d) == [ty |-> "date", year |-> y, month |-> m, day |-> d]

DateTime(y, m, d, hh, mm, ss) ==
    [ty |-> "datetime", year |-> y, month |-> m, day |-> d,
     hour |-> hh, minute |-> mm, second |-> ss]

\* a float that round(x, 2) returned, in hundredths
PyFloat2(hundredths) == [ty |-> "float", hundredths |-> hundredths]

\* bool(x): what `if x` and `x or y` test
Truthy(x) ==
    CASE x.ty = "NoneType" -> FALSE
      [] x.ty = "str"      -> x.v # ""
      [] x.ty = "list"     -> x.v # <<>>
      [] x.ty = "dict"     -> x.v # <<>>
      [] x.ty = "int"      -> x.v # 0
      [] OTHER             -> TRUE

Pad2(n) == IF n < 10 THEN "0" \o ToString(n) ELSE ToString(n)

\* date.isoformat() / datetime.isoformat()
IsoFormat(d) ==
    LET day == ToString(d.year) \o "-" \o Pad2(d.month) \o "-" \o Pad2(d.day)
    IN  IF d.ty = "date"
        THEN day
        ELSE day \o "T" \o Pad2(d.hour) \o ":" \o Pad2(d.minute)
                 \o ":" \o Pad2(d.second)

RECURSIVE ReprPairs(_)
ReprPairs(kv) ==
    IF kv = <<>> THEN ""
    ELSE "'" \o kv[1][1] \o "': '" \o kv[1][2] \o "'"
         \o (IF Len(kv) > 1 THEN ", " ELSE "") \o ReprPairs(Tail(kv))

\* str(x), also what an f-string placeholder renders
PyStr(x) ==
    CASE x.ty = "NoneType" -> "None"
      [] x.ty = "str"      -> x.v
      [] x.ty = "UUID"     -> x.v
      [] x.ty = "int"      -> ToString(x.v)
      [] x.ty = "dict"     -> "{" \o ReprPairs(x.v) \o "}"
      [] OTHER             -> IsoFormat(x)

\* sep.join(items) for a list of str
RECURSIVE Join(_, _)
Join(sep, items) ==
    IF items = <<>> THEN ""
    ELSE IF Len(items) = 1 THEN items[1]
    ELSE items[1] \o sep \o Join(sep, Tail(items))

\* d.get(key) on a JSON object
Get(d, key) == IF key \in DOMAIN d THEN d[key] ELSE None

\* table.get(key, default) on a dict literal of str -> str
GetOr(table, key, default) ==
    IF key.ty = "str" /\ key.v \in DOMAIN table
    THEN Str(table[key.v]) ELSE default

(***************************************************************************)
(* Outcomes of a call.                                                     *)
(***************************************************************************)
NoCall == [kind |-> "none"]

Return(op, value) == [kind |-> "return", op |-> op, value |-> value]

Raise(op, exc) == [kind |-> "raise", op |-> op, exc |-> exc]

Called(op) == ret.kind # "none" /\ ret.op = op

Returned(op) == ret.kind = "return" /\ ret.op = op

Raised(op) == ret.kind = "raise" /\ ret.op = op


\* an exception that leaves an expression instead of a value
Exc(name) == [ty |-> "exception", exc |-> name]

IsExc(x) == "ty" \in DOMAIN x /\ x.ty = "exception"

\* (a, b) < (c, d) on tuples of two ints: Python compares the first
\* differing position
TupleLess(a, b) == IF a[1] # b[1] THEN a[1] < b[1] ELSE a[2] < b[2]

\* int(True) = 1, int(False) = 0: a bool is an int in arithmetic
BoolInt(b) == IF b THEN 1 ELSE 0

\* round(num / den, 2) in hundredths, for num >= 0 and den > 0 and a
\* quotient that is no exact tie: the nearest hundredth (a tie goes to the
\* even one)
RoundHundredths(num, den) ==
    LET q == (num * 100) \div den
        r == (num * 100) % den
    IN  IF 2 * r > den \/ (2 * r = den /\ q % 2 = 1) THEN q + 1 ELSE q

\* int(x) of the float num / den, den > 0: truncation toward zero
IntOfQuotient(num, den) ==
    IF num >= 0 THEN num \div den ELSE -((-num) \div den)

\* days from 1970-01-01 to the date of d (proleptic Gregorian calendar)
DaysFromCivil(d) ==
    LET y   == IF d.month <= 2 THEN d.year - 1 ELSE d.year
        era == y \div 400
        yoe == y - era * 400
        mp  == IF d.month > 2 THEN d.month - 3 ELSE d.month + 9
        doy == (153 * mp + 2) \div 5 + d.day - 1
        doe == yoe * 365 + yoe \div 4 - yoe \div 100 + doy
    IN  era * 146097 + doe - 719468

\* (a - b).total_seconds() of two datetimes
TotalSeconds(a, b) ==
    (DaysFromCivil(a) - DaysFromCivil(b)) * 86400
    + (a.hour - b.hour) * 3600 + (a.minute - b.minute) * 60
    + (a.second - b.second)

(***************************************************************************)
(* Patient (backend/app/models/patient.py)                                 *)
(***************************************************************************)
\* Patient.full_name
full_name(self) ==
    IF Truthy(self.middle_name)
    THEN PyStr(self.first_name) \o " " \o PyStr(self.middle_name)
         \o " " \o PyStr(self.last_name)
    ELSE PyStr(self.first_name) \o " " \o PyStr(self.last_name)

\* a comparison that tests the month alone
age_month_only(self, today) ==
    IF self.date_of_birth = None THEN Exc("AttributeError")
    ELSE PyInt(today.year - self.date_of_birth.year
               - BoolInt(today.month < self.date_of_birth.month))

\* Patient.age, with `today` the value datetime.now().date() returned
age(self, today) ==
    IF self.date_of_birth = None THEN Exc("AttributeError")
    ELSE PyInt(today.year - self.date_of_birth.year
               - BoolInt(TupleLess(<<today.month, today.day>>,
                                   <<self.date_of_birth.month,
                                     self.date_of_birth.day>>)))

\* the quotient cut to two decimals instead of rounded
bmi_truncated(self) ==
    IF Truthy(self.height) /\ Truthy(self.weight)
    THEN PyFloat2((self.weight.v * 1000000)
                  \div (self.height.v * self.height.v))
    ELSE None

\* Patient.bmi: weight / (height / 100) ** 2 is weight * 10000 / height^2
bmi(self) ==
    IF Truthy(self.height) /\ Truthy(self.weight)
    THEN PyFloat2(RoundHundredths(self.weight.v * 10000,
                                  self.height.v * self.height.v))
    ELSE None

\* the external identifier put first
patient_identifier_swapped(self) ==
    (IF Truthy(self.abha_id)
     THEN <<[system |-> "https://abdm.gov.in/health-id",
             value |-> self.abha_id]>>
     ELSE <<>>)
    \o <<[system |-> "https://clinified.com/patient",
          value |-> self.patient_id]>>

\* "identifier" of to_fhir_patient
patient_identifier(self) ==
    <<[system |-> "https://clinified.com/patient",
       value |-> self.patient_id]>>
    \o (IF Truthy(self.abha_id)
        THEN <<[system |-> "https://abdm.gov.in/health-id",
                value |-> self.abha_id]>>
        ELSE <<>>)

\* the deceased flag forgotten
patient_active_only(self) == self.is_active

\* "active" of to_fhir_patient
patient_active(self) == self.is_active /\ ~self.is_deceased

\* a middle name tested against None alone
patient_given_not_none(self) ==
    <<self.first_name>>
    \o (IF self.middle_name # None THEN <<self.middle_name>> ELSE <<>>)

\* "given" of the name entry of to_fhir_patient
patient_given(self) ==
    <<self.first_name>>
    \o (IF Truthy(self.middle_name) THEN <<self.middle_name>> ELSE <<>>)

\* "name" of to_fhir_patient
patient_name(self) ==
    <<[use |-> "official",
       text |-> full_name(self),
       family |-> self.last_name,
       given |-> patient_given(self)]>>

\* "telecom" of to_fhir_patient
patient_telecom(self) ==
    <<IF Truthy(self.phone)
      THEN [system |-> "phone", value |-> self.phone] ELSE None,
      IF Truthy(self.email)
      THEN [system |-> "email", value |-> self.email] ELSE None>>

\* a birth date rendered only when there is one
patient_birthDate_or_none(self) ==
    IF self.date_of_birth = None THEN None
    ELSE Str(IsoFormat(self.date_of_birth))

\* "birthDate" of to_fhir_patient: self.date_of_birth.isoformat()
patient_birthDate(self) ==
    IF self.date_of_birth = None THEN Exc("AttributeError")
    ELSE Str(IsoFormat(self.date_of_birth))

\* "address" of to_fhir_patient
patient_address(self) ==
    IF Truthy(self.address)
    THEN <<[use |-> "home",
            text |-> self.address,
            city |-> self.city,
            state |-> self.state,
            postalCode |-> self.pincode,
            country |-> self.country]>>
    ELSE <<>>

\* "contact" of to_fhir_patient
patient_contact(self) ==
    IF Truthy(self.emergency_contact_name)
    THEN <<[relationship |->
              <<[coding |->
                   <<[system |->
                        "http://terminology.hl7.org/CodeSystem/v2-0131",
                      code |-> "C",
                      display |-> "Emergency Contact"]>>]>>,
            name |-> [text |-> self.emergency_contact_name],
            telecom |->
              IF Truthy(self.emergency_contact_phone)
              THEN <<[system |-> "phone",
                      value |-> self.emergency_contact_phone]>>
              ELSE <<>>]>>
    ELSE <<>>

\* the allergies entry made conditional like the blood-group entry
patient_extension_allergies_optional(self) ==
    <<IF Truthy(self.blood_group)
      THEN [url |-> "https://clinified.com/extension/blood-group",
            valueString |-> self.blood_group]
      ELSE None,
      IF Truthy(self.allergies)
      THEN [url |-> "https://clinified.com/extension/allergies",
            valueString |-> Str(Join(", ", self.allergies.v))]
      ELSE None>>

\* "extension" of to_fhir_patient
patient_extension(self) ==
    <<IF Truthy(self.blood_group)
      THEN [url |-> "https://clinified.com/extension/blood-group",
            valueString |-> self.blood_group]
      ELSE None,
      [url |-> "https://clinified.com/extension/allergies",
       valueString |->
         IF Truthy(self.allergies)
         THEN Str(Join(", ", self.allergies.v)) ELSE Str("")]>>

\* Patient.to_fhir_patient: the dict display is evaluated member by member
\* and an exception in any member leaves the method with no dict built
to_fhir_patient(self) ==
    LET birthDate == patient_birthDate(self)
    IN  IF IsExc(birthDate)
        THEN Raise("to_fhir_patient", birthDate.exc)
        ELSE Return("to_fhir_patient",
                [resourceType |-> "Patient",
                 id |-> PyStr(self.id),
                 identifier |-> patient_identifier(self),
                 active |-> patient_active(self),
                 name |-> patient_name(self),
                 telecom |-> patient_telecom(self),
                 gender |-> self.gender,
                 birthDate |-> birthDate,
                 address |-> patient_address(self),
                 contact |-> patient_contact(self),
                 extension |-> patient_extension(self)])


(***************************************************************************)
(* Encounter (backend/app/models/encounter.py)                             *)
(***************************************************************************)
\* "onleave" counted as active
is_active_with_onleave(self) ==
    self.status \in {Str("arrived"), Str("triaged"), Str("in-progress"),
                     Str("onleave")}

\* Encounter.is_active
is_active(self) ==
    self.status \in {Str("arrived"), Str("triaged"), Str("in-progress")}

\* Encounter.is_completed
is_completed(self) == self.status = Str("finished")

\* the stored duration preferred to the computed one
duration_prefers_stored(self) ==
    IF Truthy(self.duration_minutes) THEN self.duration_minutes
    ELSE IF Truthy(self.start_date) /\ Truthy(self.end_date)
    THEN PyInt(IntOfQuotient(TotalSeconds(self.end_date, self.start_date),
                             60))
    ELSE PyInt(0)

\* Encounter.duration
duration(self) ==
    IF Truthy(self.start_date) /\ Truthy(self.end_date)
    THEN PyInt(IntOfQuotient(TotalSeconds(self.end_date, self.start_date),
                             60))
    ELSE IF Truthy(self.duration_minutes) THEN self.duration_minutes
    ELSE PyInt(0)

\* class_displays of Encounter._get_class_display
class_displays ==
    [AMB   |-> "Ambulatory",
     EMER  |-> "Emergency",
     HH    |-> "Home Health",
     IMP   |-> "Inpatient Encounter",
     ACUTE |-> "Inpatient Acute",
     NONAC |-> "Inpatient Non-acute",
     PRENC |-> "Pre-admission",
     SS    |-> "Short Stay",
     VR    |-> "Virtual"]

\* priority_displays of Encounter._get_priority_display
priority_displays ==
    [routine |-> "Routine",
     urgent  |-> "Urgent",
     asap    |-> "ASAP",
     stat    |-> "Stat"]

\* a lookup with no default: dict.get(key) is None for an unmapped key
_get_class_display_no_default(self) ==
    GetOr(class_displays, self.class_code, None)

\* Encounter._get_class_display
_get_class_display(self) ==
    GetOr(class_displays, self.class_code, self.class_code)

\* Encounter._get_priority_display
_get_priority_display(self) ==
    GetOr(priority_displays, self.priority, self.priority)

\* "identifier" of to_fhir_encounter
encounter_identifier(self) ==
    <<[system |-> "https://clinified.com/encounter",
       value |-> self.encounter_id]>>
    \o (IF Truthy(self.fhir_encounter_id)
        THEN <<[system |-> "https://clinified.com/fhir",
                value |-> self.fhir_encounter_id]>>
        ELSE <<>>)

\* "class" of to_fhir_encounter
encounter_class(self) ==
    [system |-> "http://terminology.hl7.org/CodeSystem/v3-ActCode",
     code |-> self.class_code,
     display |-> _get_class_display(self)]

\* "priority" of to_fhir_encounter
encounter_priority(self) ==
    [coding |->
       <<[system |-> "http://terminology.hl7.org/CodeSystem/v3-ActPriority",
          code |-> self.priority,
          display |-> _get_priority_display(self)]>>]

\* "participant" of to_fhir_encounter
encounter_participant(self) ==
    <<[type |->
         <<[coding |->
              <<[system |->
                   "http://terminology.hl7.org/CodeSystem/v3-ParticipationType",
                 code |-> "ATND",
                 display |-> "attender"]>>]>>,
       individual |->
         [reference |-> "Practitioner/" \o PyStr(self.practitioner_id)]]>>

\* "period" of to_fhir_encounter: self.start_date.isoformat() and the
\* conditional expression for "end"
encounter_period(self) ==
    IF self.start_date = None THEN Exc("AttributeError")
    ELSE [start |-> Str(IsoFormat(self.start_date)),
          end |-> IF Truthy(self.end_date)
                  THEN Str(IsoFormat(self.end_date)) ELSE None]

\* one entry of "reasonCode"
reasonCode_entry(code) ==
    [coding |-> <<[system |-> "http://snomed.info/sct",
                   code |-> Get(code, "code"),
                   display |-> Get(code, "display")]>>,
     text |-> Get(code, "text")]

\* "reasonCode" of to_fhir_encounter
encounter_reasonCode(self) ==
    IF Truthy(self.reason_code)
    THEN [i \in 1..Len(self.reason_code.v) |->
            reasonCode_entry(self.reason_code.v[i])]
    ELSE <<>>

\* one entry of "reasonReference"
reasonReference_entry(diagnosis) ==
    [reference |-> "Condition/" \o PyStr(Get(diagnosis, "condition_id"))]

\* "reasonReference" of to_fhir_encounter
encounter_reasonReference(self) ==
    IF Truthy(self.diagnosis)
    THEN [i \in 1..Len(self.diagnosis.v) |->
            reasonReference_entry(self.diagnosis.v[i])]
    ELSE <<>>

\* "extension" of to_fhir_encounter
encounter_extension(self) ==
    <<IF Truthy(self.chief_complaint)
      THEN [url |-> "https://clinified.com/extension/chief-complaint",
            valueString |-> self.chief_complaint]
      ELSE None,
      IF Truthy(self.vital_signs)
      THEN [url |-> "https://clinified.com/extension/vital-signs",
            valueString |-> Str(PyStr(self.vital_signs))]
      ELSE None,
      [url |-> "https://clinified.com/extension/payment-status",
       valueString |-> self.payment_status]>>

\* Encounter.to_fhir_encounter: as to_fhir_patient, an exception in a member
\* leaves the method with no dict built
to_fhir_encounter(self) ==
    LET period == encounter_period(self)
    IN  IF IsExc(period)
        THEN Raise("to_fhir_encounter", period.exc)
        ELSE Return("to_fhir_encounter",
                [resourceType |-> "Encounter",
                 id |-> PyStr(self.id),
                 identifier |-> encounter_identifier(self),
                 status |-> self.status,
                 class |-> encounter_class(self),
                 priority |-> encounter_priority(self),
                 subject |->
                   [reference |-> "Patient/" \o PyStr(self.patient_id)],
                 participant |-> encounter_participant(self),
                 period |-> period,
                 reasonCode |-> encounter_reasonCode(self),
                 reasonReference |-> encounter_reasonReference(self),
                 serviceProvider |->
                   [reference |-> "Organization/" \o PyStr(self.tenant_id)],
                 extension |-> encounter_extension(self)])


(***************************************************************************)
(* The objects and the values assigned to their attributes.                *)
(***************************************************************************)
\* a Patient as registered with its required columns and the column
\* defaults (patient.py, lines 20-80)
NewPatient ==
    [id |-> UUID("7d9f0c1e-0000-4000-8000-00000000000a"),
     tenant_id |-> UUID("7d9f0c1e-0000-4000-8000-0000000000ff"),
     patient_id |-> Str("PAT-001"),
     abha_id |-> None,
     first_name |-> Str("Asha"),
     last_name |-> Str("Rao"),
     middle_name |-> None,
     date_of_birth |-> Date(2000, 3, 15),
     gender |-> Str("female"),
     phone |-> None,
     email |-> None,
     address |-> None,
     city |-> None,
     state |-> None,
     pincode |-> None,
     country |-> Str("India"),
     emergency_contact_name |-> None,
     emergency_contact_phone |-> None,
     blood_group |-> None,
     height |-> None,
     weight |-> None,
     allergies |-> List(<<>>),
     is_active |-> TRUE,
     is_deceased |-> FALSE]

\* an Encounter as created with its required columns and the column
\* defaults (encounter.py, lines 20-76)
NewEncounter ==
    [id |-> UUID("7d9f0c1e-0000-4000-8000-00000000000e"),
     tenant_id |-> UUID("7d9f0c1e-0000-4000-8000-0000000000ff"),
     patient_id |-> UUID("7d9f0c1e-0000-4000-8000-00000000000a"),
     practitioner_id |-> UUID("7d9f0c1e-0000-4000-8000-00000000000d"),
     encounter_id |-> Str("ENC-001"),
     fhir_encounter_id |-> None,
     status |-> Str("planned"),
     class_code |-> Str("AMB"),
     priority |-> Str("routine"),
     start_date |-> DateTime(2024, 3, 15, 9, 0, 0),
     end_date |-> None,
     duration_minutes |-> None,
     reason_code |-> List(<<>>),
     reason_text |-> None,
     diagnosis |-> List(<<>>),
     chief_complaint |-> None,
     vital_signs |-> Dict(<<>>),
     payment_status |-> Str("pending")]

\* allergies: lists of up to MaxListLen names
AllergyLists ==
    { List([i \in 1..n |-> "allergen-" \o ToString(i)]) : n \in 0..MaxListLen }

\* one stored reason code; every second one has no "text"
ReasonEntry(i) ==
    IF i % 2 = 1
    THEN [code |-> Str("R" \o ToString(i)),
          display |-> Str("reason " \o ToString(i)),
          text |-> Str("text " \o ToString(i))]
    ELSE [code |-> Str("R" \o ToString(i)),
          display |-> Str("reason " \o ToString(i))]

ReasonLists ==
    { List([i \in 1..n |-> ReasonEntry(i)]) : n \in 0..MaxListLen }

\* one stored diagnosis, with or without a condition identifier
DiagnosisEntry(i, withId) ==
    IF withId
    THEN [code |-> Str("D" \o ToString(i)),
          condition_id |-> Str("cond-" \o ToString(i))]
    ELSE [code |-> Str("D" \o ToString(i))]

DiagnosisLists ==
    { List([i \in 1..n |-> DiagnosisEntry(i, i \in W)]) :
        n \in 0..MaxListLen, W \in SUBSET (1..MaxListLen) }

\* the values the caller assigns to the attributes of a Patient
PatientValues ==
    [abha_id |-> {None, Str(""), Str("91-1234-5678-9012")},
     middle_name |-> {None, Str(""), Str("Kiran")},
     date_of_birth |-> {None, Date(2000, 3, 15), Date(2000, 2, 29),
                        Date(2001, 12, 31), Date(2024, 3, 15)},
     phone |-> {None, Str("+91-9000000001")},
     email |-> {None, Str("asha@example.org")},
     address |-> {None, Str("12 MG Road")},
     city |-> {None, Str("Pune")},
     state |-> {None, Str("Maharashtra")},
     pincode |-> {None, Str("411001")},
     country |-> {None, Str("India")},
     emergency_contact_name |-> {None, Str("Ravi Rao")},
     emergency_contact_phone |-> {None, Str("+91-9000000002")},
     blood_group |-> {None, Str(""), Str("O+")},
     allergies |-> {None} \cup AllergyLists,
     is_active |-> BOOLEAN,
     is_deceased |-> BOOLEAN]

\* the values of Encounter.status (encounter.py, line 34)
StatusEnumeration ==
    {"planned", "arrived", "triaged", "in-progress", "onleave", "finished",
     "cancelled"}

\* the values the caller assigns to the attributes of an Encounter
EncounterValues ==
    [fhir_encounter_id |-> {None, Str(""), Str("fhir-enc-1")},
     class_code |-> {None, Str("XYZ")}
                    \cup { Str(c) : c \in DOMAIN class_displays },
     priority |-> {None, Str("elective")}
                  \cup { Str(c) : c \in DOMAIN priority_displays },
     start_date |-> {None, DateTime(2024, 3, 15, 9, 0, 0)},
     end_date |-> {None, DateTime(2024, 3, 15, 9, 45, 0)},
     reason_code |-> {None} \cup ReasonLists,
     diagnosis |-> {None} \cup DiagnosisLists,
     chief_complaint |-> {None, Str("fever")},
     vital_signs |-> {None, Dict(<<>>), Dict(<<<<"bp", "120/80">>>>)},
     payment_status |-> {Str("pending"), Str("paid")}]

\* the values the caller assigns to the attributes the derived properties
\* of a Patient are computed from
PatientSourceValues ==
    [date_of_birth |-> {Date(2000, 3, 15), Date(2000, 2, 29),
                        Date(2001, 12, 31)},
     height |-> {None, PyInt(0), PyInt(160), PyInt(170)},
     weight |-> {None, PyInt(64), PyInt(70)},
     is_active |-> BOOLEAN,
     is_deceased |-> BOOLEAN]

\* the values the caller assigns to the attributes the derived properties
\* of an Encounter are computed from
EncounterSourceValues ==
    [status |-> { Str(st) : st \in StatusEnumeration },
     start_date |-> {None, DateTime(2024, 3, 15, 9, 0, 0)},
     end_date |-> {None, DateTime(2024, 3, 15, 9, 45, 0),
                   DateTime(2024, 3, 15, 9, 45, 30),
                   DateTime(2024, 3, 16, 0, 0, 10),
                   DateTime(2024, 3, 15, 8, 59, 30)},
     duration_minutes |-> {None, PyInt(0), PyInt(30)}]

\* the dates datetime.now().date() returns
Today ==
    {Date(2023, 2, 28), Date(2023, 3, 1), Date(2024, 3, 14),
     Date(2024, 3, 15), Date(2024, 12, 31)}

\* a thread that is in no projector
IdleTask == [op |-> "none", pc |-> 0, doc |-> <<>>, out |-> NoCall]

NoTasks == [t \in 1..MaxTasks |-> IdleTask]

\* no request is being served
NoRequest == [pc |-> "idle"]

\* no session exists
NoSession == [state |-> "none"]

(***************************************************************************)
(* The caller's steps.                                                     *)
(***************************************************************************)
Init ==
    /\ patient = NewPatient
    /\ encounter = NewEncounter
    /\ writes = 0
    /\ ret = NoCall
    /\ clock = None
    /\ tasks = NoTasks
    /\ request = NoRequest
    /\ session = NoSession

\* patient.<attr> = value, between two calls
SetPatientAttr(attr, value) ==
    /\ ret = NoCall
    /\ writes < MaxWrites
    /\ patient' = [patient EXCEPT ![attr] = value]
    /\ writes' = writes + 1
    /\ UNCHANGED <<encounter, ret, clock, tasks, request, session>>

\* encounter.<attr> = value
SetEncounterAttr(attr, value) ==
    /\ ret = NoCall
    /\ writes < MaxWrites
    /\ encounter' = [encounter EXCEPT ![attr] = value]
    /\ writes' = writes + 1
    /\ UNCHANGED <<patient, ret, clock, tasks, request, session>>

\* patient.to_fhir_patient()
Call_to_fhir_patient ==
    /\ ret = NoCall
    /\ ret' = to_fhir_patient(patient)
    /\ clock' = None
    /\ UNCHANGED <<patient, encounter, writes, tasks, request, session>>

\* encounter.to_fhir_encounter()
Call_to_fhir_encounter ==
    /\ ret = NoCall
    /\ ret' = to_fhir_encounter(encounter)
    /\ clock' = None
    /\ UNCHANGED <<patient, encounter, writes, tasks, request, session>>

\* patient.age, the clock reading `today`
Call_age ==
    \E today \in Today :
        /\ ret = NoCall
        /\ ret' = (LET a == age(patient, today)
                   IN  IF IsExc(a) THEN Raise("age", a.exc)
                       ELSE Return("age", a.v))
        /\ clock' = today
        /\ UNCHANGED <<patient, encounter, writes, tasks, request, session>>

\* patient.age read again while the caller still holds the last reading:
\* the clock has not gone back
Call_age_again ==
    \E today \in Today :
        /\ Returned("age")
        /\ DaysFromCivil(clock) <= DaysFromCivil(today)
        /\ ret' = Return("age", age(patient, today).v)
        /\ clock' = today
        /\ UNCHANGED <<patient, encounter, writes, tasks, request, session>>

\* a BMI kept from the object as constructed
Call_bmi_cached ==
    /\ ret = NoCall
    /\ ret' = Return("bmi", bmi(NewPatient))
    /\ clock' = None
    /\ UNCHANGED <<patient, encounter, writes, tasks, request, session>>

\* patient.bmi
Call_bmi ==
    /\ ret = NoCall
    /\ ret' = Return("bmi", bmi(patient))
    /\ clock' = None
    /\ UNCHANGED <<patient, encounter, writes, tasks, request, session>>

\* encounter.is_active
Call_is_active ==
    /\ ret = NoCall
    /\ ret' = Return("is_active", is_active(encounter))
    /\ clock' = None
    /\ UNCHANGED <<patient, encounter, writes, tasks, request, session>>

\* encounter.is_completed
Call_is_completed ==
    /\ ret = NoCall
    /\ ret' = Return("is_completed", is_completed(encounter))
    /\ clock' = None
    /\ UNCHANGED <<patient, encounter, writes, tasks, request, session>>

\* encounter.duration
Call_duration ==
    /\ ret = NoCall
    /\ ret' = Return("duration", duration(encounter).v)
    /\ clock' = None
    /\ UNCHANGED <<patient, encounter, writes, tasks, request, session>>

\* the caller is done with the outcome of its last call
Drop ==
    /\ ret # NoCall
    /\ ret' = NoCall
    /\ clock' = None
    /\ UNCHANGED <<patient, encounter, writes, tasks, request, session>>

Next ==
    \/ \E attr \in DOMAIN PatientValues :
         \E value \in PatientValues[attr] : SetPatientAttr(attr, value)
    \/ \E attr \in DOMAIN EncounterValues :
         \E value \in EncounterValues[attr] : SetEncounterAttr(attr, value)
    \/ Call_to_fhir_patient
    \/ Call_to_fhir_encounter
    \/ Call_age
    \/ Drop

Spec == Init /\ [][Next]_vars

\* the caller writes the source attributes and reads the derived
\* properties
NextDerived ==
    \/ \E attr \in DOMAIN PatientSourceValues :
         \E value \in PatientSourceValues[attr] :
            SetPatientAttr(attr, value)
    \/ \E attr \in DOMAIN EncounterSourceValues :
         \E value \in EncounterSourceValues[attr] :
            SetEncounterAttr(attr, value)
    \/ Call_to_fhir_patient
    \/ Call_age
    \/ Call_age_again
    \/ Call_bmi
    \/ Call_is_active
    \/ Call_is_completed
    \/ Call_duration
    \/ Drop

SpecDerived == Init /\ [][NextDerived]_vars


(***************************************************************************)
(* Projections running side by side.  A projector evaluates the members    *)
(* of its dict display one after the other, each from the attributes of    *)
(* self as they are at that moment; threads interleave between members.    *)
(***************************************************************************)
\* the members of the dict display of to_fhir_patient, in source order
PatientMemberOrder ==
    <<"resourceType", "id", "identifier", "active", "name", "telecom",
      "gender", "birthDate", "address", "contact", "extension">>

\* the members of the dict display of to_fhir_encounter, in source order
EncounterMemberOrder ==
    <<"resourceType", "id", "identifier", "status", "class", "priority",
      "subject", "participant", "period", "reasonCode", "reasonReference",
      "serviceProvider", "extension">>

\* the value of one member of the dict display of to_fhir_patient
patient_member(self, key) ==
    CASE key = "resourceType" -> "Patient"
      [] key = "id"           -> PyStr(self.id)
      [] key = "identifier"   -> patient_identifier(self)
      [] key = "active"       -> patient_active(self)
      [] key = "name"         -> patient_name(self)
      [] key = "telecom"      -> patient_telecom(self)
      [] key = "gender"       -> self.gender
      [] key = "birthDate"    -> patient_birthDate(self)
      [] key = "address"      -> patient_address(self)
      [] key = "contact"      -> patient_contact(self)
      [] key = "extension"    -> patient_extension(self)

\* the value of one member of the dict display of to_fhir_encounter
encounter_member(self, key) ==
    CASE key = "resourceType"    -> "Encounter"
      [] key = "id"              -> PyStr(self.id)
      [] key = "identifier"      -> encounter_identifier(self)
      [] key = "status"          -> self.status
      [] key = "class"           -> encounter_class(self)
      [] key = "priority"        -> encounter_priority(self)
      [] key = "subject"         ->
             [reference |-> "Patient/" \o PyStr(self.patient_id)]
      [] key = "participant"     -> encounter_participant(self)
      [] key = "period"          -> encounter_period(self)
      [] key = "reasonCode"      -> encounter_reasonCode(self)
      [] key = "reasonReference" -> encounter_reasonReference(self)
      [] key = "serviceProvider" ->
             [reference |-> "Organization/" \o PyStr(self.tenant_id)]
      [] key = "extension"       -> encounter_extension(self)

\* the members that call a method of an attribute (isoformat) raise when
\* the attribute is None
member_raises(key, value) ==
    key \in {"birthDate", "period"} /\ IsExc(value)

\* `self.allergies or []` written back to the object
self_after_member_normalising(self, key) ==
    IF key = "extension" /\ "allergies" \in DOMAIN self
       /\ ~Truthy(self.allergies)
    THEN [self EXCEPT !.allergies = List(<<>>)]
    ELSE self

\* self after a member is evaluated: the member expressions only read
\* attributes, none assigns one
self_after_member(self, key) == self

\* the records the projectors are invoked on
SamplePatients ==
    {NewPatient,
     [NewPatient EXCEPT !.date_of_birth = None],
     [NewPatient EXCEPT !.abha_id = Str("91-1234-5678-9012"),
                        !.middle_name = Str("Kiran"),
                        !.address = Str("12 MG Road"),
                        !.city = Str("Pune"),
                        !.blood_group = Str("O+"),
                        !.allergies = None,
                        !.is_deceased = TRUE]}

SampleEncounters ==
    {NewEncounter,
     [NewEncounter EXCEPT !.start_date = None],
     [NewEncounter EXCEPT !.fhir_encounter_id = Str("fhir-enc-1"),
                          !.status = Str("finished"),
                          !.class_code = Str("XYZ"),
                          !.priority = Str("urgent"),
                          !.end_date = DateTime(2024, 3, 15, 9, 45, 0),
                          !.reason_code = List(<<ReasonEntry(1)>>),
                          !.diagnosis =
                              List(<<DiagnosisEntry(1, TRUE)>>)]}

InitConcurrent ==
    /\ patient \in SamplePatients
    /\ encounter \in SampleEncounters
    /\ writes = 0
    /\ ret = NoCall
    /\ clock = None
    /\ tasks = NoTasks
    /\ request = NoRequest
    /\ session = NoSession

\* a thread calls patient.to_fhir_patient() or encounter.to_fhir_encounter()
Invoke(t, op) ==
    /\ tasks[t] = IdleTask
    /\ tasks' = [tasks EXCEPT ![t] = [IdleTask EXCEPT !.op = op]]
    /\ UNCHANGED <<patient, encounter, writes, ret, clock, request, session>>

\* a thread evaluates the next member of its dict display; the last member
\* completes the dict, which the method returns
EvaluateMember(t) ==
    LET task  == tasks[t]
        onPatient == task.op = "to_fhir_patient"
        order == IF onPatient THEN PatientMemberOrder
                 ELSE EncounterMemberOrder
        key   == order[task.pc + 1]
        value == IF onPatient THEN patient_member(patient, key)
                 ELSE encounter_member(encounter, key)
        doc   == [k \in DOMAIN task.doc \cup {key} |->
                     IF k = key THEN value ELSE task.doc[k]]
    IN  /\ task.op # "none"
        /\ task.out = NoCall
        /\ tasks' = [tasks EXCEPT ![t] =
               IF member_raises(key, value)
               THEN [task EXCEPT !.out = Raise(task.op, value.exc)]
               ELSE IF task.pc + 1 = Len(order)
               THEN [task EXCEPT !.pc = @ + 1, !.doc = doc,
                                 !.out = Return(task.op, doc)]
               ELSE [task EXCEPT !.pc = @ + 1, !.doc = doc]]
        /\ patient' = IF onPatient THEN self_after_member(patient, key)
                      ELSE patient
        /\ encounter' = IF onPatient THEN encounter
                        ELSE self_after_member(encounter, key)
        /\ UNCHANGED <<writes, ret, clock, request, session>>

\* the thread takes the outcome of its call
Collect(t) ==
    /\ tasks[t].out # NoCall
    /\ tasks' = [tasks EXCEPT ![t] = IdleTask]
    /\ UNCHANGED <<patient, encounter, writes, ret, clock, request, session>>

NextConcurrent ==
    \/ \E t \in 1..MaxTasks :
         \E op \in {"to_fhir_patient", "to_fhir_encounter"} : Invoke(t, op)
    \/ \E t \in 1..MaxTasks : EvaluateMember(t)
    \/ \E t \in 1..MaxTasks : Collect(t)

SpecConcurrent == InitConcurrent /\ [][NextConcurrent]_vars


(***************************************************************************)
(* The login and refresh endpoints (backend/app/api/v1/endpoints/auth.py)  *)
(* served with a session of get_db (backend/app/core/database.py).  What   *)
(* AuthService, SecurityService and UserRepository answer is an input of   *)
(* the handler: a value, or an exception of class Exception.               *)
(***************************************************************************)
\* HTTPException(status_code=..., detail=...), a subclass of Exception
HTTPException(status_code, detail) ==
    [ty |-> "exception", exc |-> "HTTPException",
     status_code |-> status_code, detail |-> detail]

\* asyncio.CancelledError derives from BaseException, not from Exception
IsException(e) == e.exc # "CancelledError"

\* a User row
User(id, active) == [ty |-> "User", id |-> id, is_active |-> active]

\* TokenResponse(...) as both handlers build it
TokenResponse(access_token, refresh_token, user) ==
    [access_token |-> access_token,
     refresh_token |-> refresh_token,
     token_type |-> "bearer",
     expires_in |-> 30 * 60,
     user |-> user.id]

\* the body of the try block of login: the value it returns or the
\* exception that leaves it
login_try(result, access_token, refresh_token, updated) ==
    IF IsExc(result) THEN result
    ELSE IF ~result.success THEN HTTPException(401, result.message)
    ELSE IF IsExc(access_token) THEN access_token
    ELSE IF IsExc(refresh_token) THEN refresh_token
    ELSE IF IsExc(updated) THEN updated
    ELSE TokenResponse(access_token, refresh_token, result.user)

\* login: `except Exception` catches whatever left the try block, the
\* HTTPException of the handler included
login(result, access_token, refresh_token, updated) ==
    LET out == login_try(result, access_token, refresh_token, updated)
    IN  IF IsExc(out)
        THEN Raise("login", HTTPException(500, Str("Login failed")))
        ELSE Return("login", out)

\* the user's is_active left unchecked
refresh_token_try_inactive_allowed(presented, payload, user, access_token) ==
    IF IsExc(payload) THEN payload
    ELSE IF payload = None \/ Get(payload, "type") # Str("refresh")
    THEN HTTPException(401, Str("Invalid refresh token"))
    ELSE IF ~Truthy(Get(payload, "sub"))
    THEN HTTPException(401, Str("Invalid token payload"))
    ELSE IF IsExc(user) THEN user
    ELSE IF user = None
    THEN HTTPException(401, Str("User not found or inactive"))
    ELSE IF IsExc(access_token) THEN access_token
    ELSE TokenResponse(access_token, presented, user)

\* the body of the try block of refresh_token
refresh_token_try(presented, payload, user, access_token) ==
    IF IsExc(payload) THEN payload
    ELSE IF payload = None \/ Get(payload, "type") # Str("refresh")
    THEN HTTPException(401, Str("Invalid refresh token"))
    ELSE IF ~Truthy(Get(payload, "sub"))
    THEN HTTPException(401, Str("Invalid token payload"))
    ELSE IF IsExc(user) THEN user
    ELSE IF user = None \/ ~user.is_active
    THEN HTTPException(401, Str("User not found or inactive"))
    ELSE IF IsExc(access_token) THEN access_token
    ELSE TokenResponse(access_token, presented, user)

\* refresh_token: `except Exception` turns whatever left the try block
\* into a 401
refresh_token(presented, payload, user, access_token) ==
    LET out == refresh_token_try(presented, payload, user, access_token)
    IN  IF IsExc(out)
        THEN Raise("refresh_token",
                   HTTPException(401, Str("Token refresh failed")))
        ELSE Return("refresh_token", out)

\* what auth_service.authenticate_user answers
AuthResults ==
    {Exc("OperationalError"),
     [success |-> FALSE, message |-> Str("Invalid email or password")],
     [success |-> FALSE, message |-> Str("Account is deactivated")],
     [success |-> TRUE,
      user |-> User(UUID("7d9f0c1e-0000-4000-8000-0000000000a1"), TRUE)]}

\* what SecurityService.create_access_token answers
AccessTokens == {Exc("JWTError"), Str("access.jwt")}

\* what SecurityService.create_refresh_token answers
RefreshTokens == {Exc("JWTError"), Str("refresh.jwt")}

\* what user_repo.update_last_login answers
LastLoginUpdates == {Exc("OperationalError"), None}

\* the refresh tokens a client presents
PresentedTokens == {Str("refresh.jwt"), Str("other.jwt")}

\* what SecurityService.verify_token answers
Payloads ==
    {Exc("JWTError"),
     None,
     [type |-> Str("access"), sub |-> Str("a1")],
     [sub |-> Str("a1")],
     [type |-> Str("refresh")],
     [type |-> Str("refresh"), sub |-> Str("")],
     [type |-> Str("refresh"), sub |-> Str("a1")]}

\* what user_repo.get_by_id answers
Users ==
    {Exc("OperationalError"),
     None,
     User(UUID("7d9f0c1e-0000-4000-8000-0000000000a1"), FALSE),
     User(UUID("7d9f0c1e-0000-4000-8000-0000000000a1"), TRUE)}

\* what session.commit() and session.rollback() answer
DatabaseAnswers == {Exc("OperationalError"), None}

InitRequest ==
    /\ patient = NewPatient
    /\ encounter = NewEncounter
    /\ writes = 0
    /\ ret = NoCall
    /\ clock = None
    /\ tasks = NoTasks
    /\ request = NoRequest
    /\ session = NoSession

\* get_db up to its yield: the session is made and handed to the handler
get_db_yield(handler) ==
    /\ request = NoRequest
    /\ request' = [pc |-> "yield", handler |-> handler]
    /\ session' = [state |-> "open", commits |-> 0, rollbacks |-> 0,
                   closes |-> 0, commit_exc |-> None,
                   rollback_exc |-> None, pending |-> None,
                   raised |-> None]
    /\ UNCHANGED <<patient, encounter, writes, ret, clock, tasks>>

\* the login handler runs to its end
Handle_login ==
    \E result \in AuthResults, access_token \in AccessTokens,
       new_refresh \in RefreshTokens, updated \in LastLoginUpdates :
        /\ request.pc = "yield"
        /\ request.handler = "login"
        /\ ret' = login(result, access_token, new_refresh, updated)
        /\ request' = [pc |-> "resumed", handler |-> "login",
                       result |-> result]
        /\ UNCHANGED <<patient, encounter, writes, clock, tasks, session>>

\* the refresh_token handler runs to its end
Handle_refresh_token ==
    \E presented \in PresentedTokens, payload \in Payloads,
       user \in Users, access_token \in AccessTokens :
        /\ request.pc = "yield"
        /\ request.handler = "refresh_token"
        /\ ret' = refresh_token(presented, payload, user, access_token)
        /\ request' = [pc |-> "resumed", handler |-> "refresh_token",
                       presented |-> presented, payload |-> payload,
                       user |-> user, access_token |-> access_token]
        /\ UNCHANGED <<patient, encounter, writes, clock, tasks, session>>

\* the request is cancelled while the handler awaits: CancelledError is
\* raised in the handler and passes its `except Exception`
Cancel ==
    /\ request.pc = "yield"
    /\ ret' = Raise(request.handler, Exc("CancelledError"))
    /\ request' = [pc |-> "resumed", handler |-> request.handler]
    /\ UNCHANGED <<patient, encounter, writes, clock, tasks, session>>

\* get_db after the yield, the handler having returned:
\* await session.commit()
get_db_commit ==
    \E answer \in DatabaseAnswers :
        /\ request.pc = "resumed"
        /\ ret.kind = "return"
        /\ session' = [session EXCEPT !.commits = @ + 1,
                                      !.commit_exc = answer,
                                      !.pending = answer]
        /\ request' = [request EXCEPT !.pc = IF answer = None
                                             THEN "finally" ELSE "except"]
        /\ UNCHANGED <<patient, encounter, writes, ret, clock, tasks>>

\* every exception taken to the except clause
get_db_throw_catching_all ==
    /\ request.pc = "resumed"
    /\ ret.kind = "raise"
    /\ session' = [session EXCEPT !.pending = ret.exc]
    /\ request' = [request EXCEPT !.pc = "except"]
    /\ UNCHANGED <<patient, encounter, writes, ret, clock, tasks>>

\* get_db with the handler's exception thrown in at the yield:
\* `except Exception` takes an Exception, anything else goes to finally
get_db_throw ==
    /\ request.pc = "resumed"
    /\ ret.kind = "raise"
    /\ session' = [session EXCEPT !.pending = ret.exc]
    /\ request' = [request EXCEPT !.pc = IF IsException(ret.exc)
                                         THEN "except" ELSE "finally"]
    /\ UNCHANGED <<patient, encounter, writes, ret, clock, tasks>>

\* the except clause: await session.rollback(), then raise
get_db_rollback ==
    \E answer \in DatabaseAnswers :
        /\ request.pc = "except"
        /\ session' = [session EXCEPT
               !.rollbacks = @ + 1,
               !.rollback_exc = answer,
               !.pending = IF answer = None THEN @ ELSE answer]
        /\ request' = [request EXCEPT !.pc = "finally"]
        /\ UNCHANGED <<patient, encounter, writes, ret, clock, tasks>>

\* the finally clause: await session.close()
get_db_close ==
    /\ request.pc = "finally"
    /\ session' = [session EXCEPT !.state = "closed", !.closes = @ + 1]
    /\ request' = [request EXCEPT !.pc = "exit"]
    /\ UNCHANGED <<patient, encounter, writes, ret, clock, tasks>>

\* the end of `async with AsyncSessionLocal() as session`:
\* AsyncSession.__aexit__ awaits close() again, and the pending exception
\* leaves get_db
get_db_exit ==
    /\ request.pc = "exit"
    /\ session' = [session EXCEPT !.state = "closed", !.closes = @ + 1,
                                  !.raised = session.pending]
    /\ request' = [request EXCEPT !.pc = "done"]
    /\ UNCHANGED <<patient, encounter, writes, ret, clock, tasks>>

\* the response is sent and the request is over
Respond ==
    /\ request.pc = "done"
    /\ request' = NoRequest
    /\ session' = NoSession
    /\ ret' = NoCall
    /\ UNCHANGED <<patient, encounter, writes, clock, tasks>>

NextRequest ==
    \/ \E handler \in {"login", "refresh_token"} : get_db_yield(handler)
    \/ Handle_login
    \/ Handle_refresh_token
    \/ Cancel
    \/ get_db_commit
    \/ get_db_throw
    \/ get_db_rollback
    \/ get_db_close
    \/ get_db_exit
    \/ Respond

SpecRequest == InitRequest /\ [][NextRequest]_vars


(***************************************************************************)
(* Properties.  In a state where a call has returned, the object is the    *)
(* one the call was made on: attributes are assigned only between calls.   *)
(***************************************************************************)
\* no entry of the array is the None entry
NoNullEntry(array) == \A i \in 1..Len(array) : array[i] # None

\* a source field is absent: None or empty
Absent(x) == x = None \/ x = Str("") \/ x = List(<<>>) \/ x = Dict(<<>>)

\* C1: the telecom and extension arrays of to_fhir_patient and the extension
\* array of to_fhir_encounter hold no None entry: the entry of an absent
\* phone, email, blood_group, chief_complaint or vital_signs is removed.
C1_NoNullEntries ==
    /\ Returned("to_fhir_patient") =>
         /\ NoNullEntry(ret.value.telecom)
         /\ NoNullEntry(ret.value.extension)
    /\ Returned("to_fhir_encounter") =>
         NoNullEntry(ret.value.extension)

\* C2: the period of to_fhir_encounter always has start, and has an end
\* member exactly when end_date is recorded; never an end that is None.
C2_PeriodEndOnlyWhenRecorded ==
    Returned("to_fhir_encounter") =>
        LET period == ret.value.period
        IN  /\ "start" \in DOMAIN period
            /\ period.start = Str(IsoFormat(encounter.start_date))
            /\ ("end" \in DOMAIN period) <=> ~Absent(encounter.end_date)
            /\ "end" \in DOMAIN period => period.end # None

\* the references the diagnoses that carry a condition identifier give, in
\* stored order
RECURSIVE ConditionReferences(_)
ConditionReferences(diagnoses) ==
    IF diagnoses = <<>> THEN <<>>
    ELSE (IF "condition_id" \in DOMAIN Head(diagnoses)
          THEN <<[reference |->
                    "Condition/" \o Head(diagnoses).condition_id.v]>>
          ELSE <<>>)
         \o ConditionReferences(Tail(diagnoses))

\* C3: reasonReference of to_fhir_encounter has one reference per diagnosis
\* that carries a condition identifier, in stored order, none for a
\* diagnosis without one, and is empty when there are no diagnoses.
C3_ReasonReferencePerCondition ==
    Returned("to_fhir_encounter") =>
        ret.value.reasonReference =
            IF encounter.diagnosis = None THEN <<>>
            ELSE ConditionReferences(encounter.diagnosis.v)

\* C4: the address array of to_fhir_patient has exactly one entry when any
\* of address, city, state, pincode, country is populated, and is empty
\* only when none is.
C4_AddressWhenAnyFieldPopulated ==
    Returned("to_fhir_patient") =>
        Len(ret.value.address) =
            IF \E a \in {"address", "city", "state", "pincode", "country"} :
                   ~Absent(patient[a])
            THEN 1 ELSE 0

\* the members of the two documents
PatientMembers ==
    {"resourceType", "id", "identifier", "active", "name", "telecom",
     "gender", "birthDate", "address", "contact", "extension"}

EncounterMembers ==
    {"resourceType", "id", "identifier", "status", "class", "priority",
     "subject", "participant", "period", "reasonCode", "reasonReference",
     "serviceProvider", "extension"}

\* C5: with date_of_birth (to_fhir_patient) or start_date
\* (to_fhir_encounter) absent the call raises and returns no document; a
\* document that is returned has every member, with the required one
\* rendered.
C5_MissingRequiredFieldRaises ==
    /\ Called("to_fhir_patient") =>
         /\ patient.date_of_birth = None => ret.kind = "raise"
         /\ ret.kind = "return" =>
              /\ DOMAIN ret.value = PatientMembers
              /\ ret.value.birthDate = Str(IsoFormat(patient.date_of_birth))
    /\ Called("to_fhir_encounter") =>
         /\ encounter.start_date = None => ret.kind = "raise"
         /\ ret.kind = "return" =>
              /\ DOMAIN ret.value = EncounterMembers
              /\ ret.value.period.start =
                     Str(IsoFormat(encounter.start_date))

C5_Witness ==
    /\ Raised("to_fhir_patient")
    /\ patient.date_of_birth = None

\* C6: active of to_fhir_patient equals is_active AND NOT is_deceased.
C6_ActiveFlag ==
    Returned("to_fhir_patient") =>
        ret.value.active = (patient.is_active /\ ~patient.is_deceased)

C6_Witness ==
    /\ Returned("to_fhir_patient")
    /\ patient.is_active
    /\ patient.is_deceased
    /\ ret.value.active = FALSE

\* C7: the single official name entry of to_fhir_patient has given = [first
\* name] when middle_name is absent (None or empty) and [first name, middle
\* name] otherwise.
C7_GivenNames ==
    Returned("to_fhir_patient") =>
        /\ Len(ret.value.name) = 1
        /\ ret.value.name[1].use = "official"
        /\ ret.value.name[1].given =
               IF Absent(patient.middle_name)
               THEN <<patient.first_name>>
               ELSE <<patient.first_name, patient.middle_name>>

C7_Witness ==
    /\ Returned("to_fhir_patient")
    /\ patient.middle_name = Str("Kiran")
    /\ Len(ret.value.name[1].given) = 2

\* the display the claim gives a code under a table
DisplayOf(table, code) ==
    IF \E k \in DOMAIN table : code = Str(k)
    THEN Str(table[code.v]) ELSE code

\* C8: class.display and the priority coding's display of to_fhir_encounter
\* are the entries of the 9-entry class table and the 4-entry priority
\* table for a code that is a key, and the raw code otherwise; an unmapped
\* code raises nothing.
C8_TerminologyDisplay ==
    /\ Cardinality(DOMAIN class_displays) = 9
    /\ Cardinality(DOMAIN priority_displays) = 4
    /\ Called("to_fhir_encounter") /\ encounter.start_date # None =>
         ret.kind = "return"
    /\ Returned("to_fhir_encounter") =>
         /\ ret.value.class.display =
                DisplayOf(class_displays, encounter.class_code)
         /\ Len(ret.value.priority.coding) = 1
         /\ ret.value.priority.coding[1].display =
                DisplayOf(priority_displays, encounter.priority)

C8_Witness ==
    /\ Returned("to_fhir_encounter")
    /\ encounter.class_code = Str("XYZ")
    /\ ret.value.class.display = Str("XYZ")
    /\ ret.value.priority.coding[1].display = Str("Routine")

\* the identifier array the claim gives an internal and an external
\* identifier
IdentifierArray(internalSystem, internal, externalSystem, external) ==
    IF external = None \/ external = Str("")
    THEN <<[system |-> internalSystem, value |-> internal]>>
    ELSE <<[system |-> internalSystem, value |-> internal],
           [system |-> externalSystem, value |-> external]>>

\* C9: in the identifier arrays of to_fhir_patient and to_fhir_encounter
\* the internal identifier is first, and the external identifier is there
\* only when non-empty and is then second: the array has 1 or 2 entries.
C9_IdentifierOrder ==
    /\ Returned("to_fhir_patient") =>
         /\ Len(ret.value.identifier) \in {1, 2}
         /\ ret.value.identifier =
                IdentifierArray("https://clinified.com/patient",
                                patient.patient_id,
                                "https://abdm.gov.in/health-id",
                                patient.abha_id)
    /\ Returned("to_fhir_encounter") =>
         /\ Len(ret.value.identifier) \in {1, 2}
         /\ ret.value.identifier =
                IdentifierArray("https://clinified.com/encounter",
                                encounter.encounter_id,
                                "https://clinified.com/fhir",
                                encounter.fhir_encounter_id)

C9_Witness ==
    /\ Returned("to_fhir_patient")
    /\ Len(ret.value.identifier) = 2
    /\ ret.value.identifier[2].value = patient.abha_id

\* month and day as one number, and the whole date as one number
MonthDay(d) == d.month * 100 + d.day

DayNumber(d) == d.year * 10000 + MonthDay(d)

\* C10: for a birth date not after today, age is today.year - birth.year,
\* less one exactly when (today.month, today.day) is before
\* (birth.month, birth.day); birth 2000-03-15 gives 23 on 2024-03-14 and 24
\* on 2024-03-15.
C10_Age ==
    Returned("age") =>
        LET birth == patient.date_of_birth
        IN  /\ DayNumber(birth) <= DayNumber(clock) =>
                 ret.value = clock.year - birth.year
                             - (IF MonthDay(clock) < MonthDay(birth)
                                THEN 1 ELSE 0)
            /\ birth = Date(2000, 3, 15) /\ clock = Date(2024, 3, 14) =>
                 ret.value = 23
            /\ birth = Date(2000, 3, 15) /\ clock = Date(2024, 3, 15) =>
                 ret.value = 24

C10_Witness ==
    /\ Returned("age")
    /\ patient.date_of_birth = Date(2000, 3, 15)
    /\ clock = Date(2024, 3, 14)
    /\ ret.value = 23


\* C11: the age read from a patient does not depend on the wall-clock time
\* of the read: two successive reads of the same record return the same age
C11_AgeIndependentOfClock ==
    [][(Returned("age") /\ Returned("age")' /\ patient' = patient)
       => ret'.value = ret.value]_vars

\* the weight and height of a BMI that is defined
BmiDefined(self) ==
    /\ self.height # None /\ self.weight # None
    /\ self.height.v > 0 /\ self.weight.v > 0

\* cents is weight_kg / (height_cm / 100)^2 to the nearest hundredth
NearestHundredth(cents, weight_kg, height_cm) ==
    LET h2   == height_cm * height_cm
        diff == cents * h2 - weight_kg * 1000000
    IN  2 * (IF diff >= 0 THEN diff ELSE -diff) <= h2

\* C12: patient.bmi never raises; it is None when height or weight is absent
\* and weight_kg / (height_cm/100)^2 rounded to two decimals otherwise;
\* height 170 and weight 70 give 24.22
C12_Bmi ==
    Called("bmi") =>
        /\ Returned("bmi")
        /\ (patient.height = None \/ patient.weight = None)
           => ret.value = None
        /\ BmiDefined(patient)
           => /\ ret.value.ty = "float"
              /\ NearestHundredth(ret.value.hundredths, patient.weight.v,
                                  patient.height.v)
        /\ (patient.height = PyInt(170) /\ patient.weight = PyInt(70))
           => ret.value = PyFloat2(2422)

C12_Witness ==
    /\ Returned("bmi")
    /\ patient.height = PyInt(170) /\ patient.weight = PyInt(64)
    /\ ret.value = PyFloat2(2215)

\* both dates of the encounter are recorded
BothDates(self) == self.start_date # None /\ self.end_date # None

\* the fallback of the duration: the stored minutes, 0 without them
StoredOrZero(self) ==
    IF self.duration_minutes = None THEN 0 ELSE self.duration_minutes.v

\* C13 as claimed: with both dates the duration is the floor of
\* (end_date - start_date) in minutes, whatever is stored; otherwise it is
\* the stored duration_minutes, or 0
C13_DurationFloor ==
    Called("duration") =>
        /\ Returned("duration")
        /\ BothDates(encounter)
           => ret.value =
              TotalSeconds(encounter.end_date, encounter.start_date) \div 60
        /\ ~BothDates(encounter) => ret.value = StoredOrZero(encounter)

\* C13 amended: with both dates the duration is (end_date - start_date) in
\* minutes truncated toward zero, which is the floor when end_date is not
\* before start_date; otherwise it is the stored duration_minutes, or 0
C13_DurationTruncated ==
    Called("duration") =>
        /\ Returned("duration")
        /\ BothDates(encounter)
           => LET secs == TotalSeconds(encounter.end_date,
                                       encounter.start_date)
              IN  /\ secs >= 0 => ret.value = secs \div 60
                  /\ secs < 0 => ret.value = -((-secs) \div 60)
        /\ ~BothDates(encounter) => ret.value = StoredOrZero(encounter)

C13_Witness ==
    /\ Returned("duration")
    /\ encounter.start_date = DateTime(2024, 3, 15, 9, 0, 0)
    /\ encounter.end_date = DateTime(2024, 3, 15, 9, 45, 30)
    /\ encounter.duration_minutes = PyInt(30)
    /\ ret.value = 45

\* the statuses of an active encounter
ActiveStatuses == {"arrived", "triaged", "in-progress"}

\* C14: for every status of the enumeration, is_active is true iff the
\* status is arrived, triaged or in-progress, is_completed is true iff it is
\* finished, and no encounter is both
C14_ActiveCompleted ==
    /\ encounter.status \in { Str(st) : st \in StatusEnumeration }
    /\ Called("is_active")
       => /\ Returned("is_active")
          /\ ret.value = (encounter.status.v \in ActiveStatuses)
    /\ Called("is_completed")
       => /\ Returned("is_completed")
          /\ ret.value = (encounter.status.v = "finished")
    /\ ~(is_active(encounter) /\ is_completed(encounter))

C14_Witness ==
    /\ Returned("is_active")
    /\ encounter.status = Str("triaged")
    /\ ret.value = TRUE

\* the positions of the entries of the extension array with this url
ExtensionAt(array, url) ==
    { i \in 1..Len(array) : array[i] # None /\ array[i].url = url }

\* C15: the extension array of the patient document has a blood-group entry
\* iff blood_group is present, and exactly one allergies entry, whose value
\* is the allergies joined by ", " ("" without allergies), after the
\* blood-group entry
C15_Extension ==
    Returned("to_fhir_patient") =>
        LET array == ret.value.extension
            blood == ExtensionAt(array,
                         "https://clinified.com/extension/blood-group")
            allergies == ExtensionAt(array,
                         "https://clinified.com/extension/allergies")
        IN  /\ blood # {} <=> ~Absent(patient.blood_group)
            /\ Cardinality(blood) <= 1
            /\ \A i \in blood : array[i].valueString = patient.blood_group
            /\ Cardinality(allergies) = 1
            /\ \A i \in allergies :
                  /\ array[i].valueString =
                     Str(IF Absent(patient.allergies) THEN ""
                         ELSE Join(", ", patient.allergies.v))
                  /\ \A j \in blood : j < i

C15_Witness ==
    /\ Returned("to_fhir_patient")
    /\ patient.blood_group = None
    /\ patient.allergies = List(<<>>)
    /\ \E i \in 1..Len(ret.value.extension) :
          ret.value.extension[i] =
              [url |-> "https://clinified.com/extension/allergies",
               valueString |-> Str("")]

\* C16: after any mutations of the source fields, every read of a derived
\* value (bmi, duration, is_active, is_completed, the projected active flag)
\* is the value computed from the current fields of the record
C16_DerivedFromCurrentFields ==
    /\ Called("bmi") => ret = Return("bmi", bmi(patient))
    /\ Called("duration")
       => ret = Return("duration", duration(encounter).v)
    /\ Called("is_active")
       => ret = Return("is_active", is_active(encounter))
    /\ Called("is_completed")
       => ret = Return("is_completed", is_completed(encounter))
    /\ Returned("to_fhir_patient")
       => ret.value.active = (patient.is_active /\ ~patient.is_deceased)

C16_Witness ==
    /\ writes > 0
    /\ Returned("bmi")
    /\ patient.height # NewPatient.height
    /\ patient.weight # NewPatient.weight
    /\ ret.value # bmi(NewPatient)


\* what the call of a task returns or raises when it runs alone on the
\* record
RunAlone(op) ==
    IF op = "to_fhir_patient" THEN to_fhir_patient(patient)
    ELSE to_fhir_encounter(encounter)

\* C17: under any interleaving of to_fhir_patient and to_fhir_encounter
\* invocations, every invocation ends as it does when run alone on the
\* record, and no step of an invocation changes the patient or the encounter
C17_ConcurrentProjections ==
    /\ [](\A t \in 1..MaxTasks :
            tasks[t].out # NoCall => tasks[t].out = RunAlone(tasks[t].op))
    /\ [][patient' = patient /\ encounter' = encounter]_vars

C17_Witness ==
    \E t, u \in 1..MaxTasks :
        /\ tasks[t].op = "to_fhir_patient"
        /\ tasks[t].out.kind = "return"
        /\ tasks[t].out = to_fhir_patient(patient)
        /\ tasks[u].op = "to_fhir_encounter"
        /\ tasks[u].out = NoCall
        /\ tasks[u].pc > 0
        /\ patient.allergies = None


\* the handler of the request was cancelled before it ended
Cancelled == ret.kind = "raise" /\ ret.exc.exc = "CancelledError"

\* C18: when authenticate_user reports a failure the login endpoint answers
\* 401 with the service's message, and it answers 500 "Login failed" only
\* when a collaborator raised
C18_LoginFailureIs401 ==
    (Called("login") /\ ~Cancelled) =>
        /\ (~IsExc(request.result) /\ ~request.result.success)
           => ret = Raise("login",
                          HTTPException(401, request.result.message))
        /\ ret = Raise("login", HTTPException(500, Str("Login failed")))
           => ~(~IsExc(request.result) /\ ~request.result.success)

\* the presented token verified as a refresh token with a subject, and the
\* subject's user exists and is active
RefreshAllowed ==
    /\ ~IsExc(request.payload)
    /\ request.payload # None
    /\ "type" \in DOMAIN request.payload
    /\ request.payload.type = Str("refresh")
    /\ "sub" \in DOMAIN request.payload
    /\ request.payload.sub # Str("")
    /\ ~IsExc(request.user)
    /\ request.user # None
    /\ request.user.is_active

\* C19: the refresh endpoint returns a token response only when the
\* presented token verified with type refresh and a subject whose user
\* exists and is active, and then with the presented refresh token; every
\* other answer, after any error of a collaborator too, is an HTTP 401
\* without a token (a cancelled request gets no answer)
C19_Refresh ==
    (Called("refresh_token") /\ ~Cancelled) =>
        /\ Returned("refresh_token")
           => /\ RefreshAllowed
              /\ ret.value.refresh_token = request.presented
              /\ ret.value.access_token = request.access_token
              /\ ~IsExc(request.access_token)
        /\ ~Returned("refresh_token")
           => /\ ret.kind = "raise"
              /\ ret.exc.exc = "HTTPException"
              /\ ret.exc.status_code = 401
        /\ (~RefreshAllowed \/ IsExc(request.access_token))
           => ~Returned("refresh_token")

C19_Witness ==
    /\ Returned("refresh_token")
    /\ request.presented = Str("other.jwt")
    /\ ret.value.refresh_token = Str("other.jwt")
    /\ ret.value.access_token = Str("access.jwt")

\* the exception of the handler or of the commit, None without one
OriginalException ==
    IF ret.kind = "raise" THEN ret.exc ELSE session.commit_exc

====
